---- MODULE Spec2Model ----
(***************************************************************************)
(* DataProcessor (src/src/processor.py): a stateful object holding one     *)
(* table `df`, mutated by chained calls.  This module models the outlier   *)
(* detection / removal methods and the other row-filtering methods (Spec), *)
(* the calls taking an option by name (SpecOptions) and set_index_column   *)
(* (SpecIndex).                                                            *)
(*                                                                         *)
(* Numbers.  Cell values are integers; the statistics pandas / scipy       *)
(* compute in floating point are modelled in exact rational arithmetic,    *)
(* every comparison being cross-multiplied to integers:                    *)
(*   |z| < t   <=>  (n*x - S)^2 < t^2 * (n*Q - S^2)     (S = sum, Q = sum  *)
(*                                                       of squares)       *)
(*   quartiles are carried multiplied by 4, IQR bounds by 4 * den(m).      *)
(* A missing cell is NaN; every comparison with NaN is false, as in IEEE.  *)
(***************************************************************************)
EXTENDS Integers, Sequences, FiniteSets, TLC

\* ------------------------------------------------------------------ bounds
\* Rows of a loaded one-column table, rows of a loaded two-column table, and the
\* largest cell value.
MaxRows == 5
MaxRowsWide == 3
MaxVal == 1

\* ------------------------------------------------------------- the table
\* A missing value (pandas NaN); real cell values are >= 0 in this model.
NaN == -1

\* Column names passed to the methods; a table holds "a", or "a" and "b", so "zz"
\* is absent from every table and "b" from the one-column ones.  Every column is
\* numeric (select_dtypes(include="number") keeps it).
ColumnArgs == {"a", "b", "zz"}

\* z_thresh: the default is 2, main.py passes 1.
ZThresholds == {1, 2}
\* iqr_multiplier as <<numerator, denominator>>: 0, the default 1.5, and -1.
IqrMultipliers == {<<0, 1>>, <<3, 2>>, <<-1, 1>>}
NoParam == <<0, 1>>

\* Column a may hold missing values, column b holds none.
AVals == {NaN} \cup 0..MaxVal
BVals == 0..MaxVal

\* A table is [columns, rows]; as pd.read_csv builds it, row i carries the
\* RangeIndex label i-1 in field id.
Table(cols, rows) == [columns |-> cols, rows |-> rows]
NarrowTables(n) ==
  { Table(<<"a">>, [i \in 1..n |-> [id |-> i - 1, a |-> ca[i]]]) : ca \in [1..n -> AVals] }
WideTables(n) ==
  { Table(<<"a", "b">>, [i \in 1..n |-> [id |-> i - 1, a |-> ca[i], b |-> cb[i]]]) :
      ca \in [1..n -> AVals], cb \in [1..n -> BVals] }
\* The two worked examples of the outlier methods: single-column tables.
ExampleZ == Table(<<"a">>, [i \in 1..5 |-> [id |-> i - 1, a |-> <<10, 12, 11, 13, 1000>>[i]]])
ExampleIQR == Table(<<"a">>, [i \in 1..6 |-> [id |-> i - 1, a |-> <<1, 2, 3, 4, 5, 100>>[i]]])
\* Loaded tables have at least one row (a file with no data row has no numeric
\* column); a table without rows arises when a call removes every row.
LoadedTables ==
  UNION {NarrowTables(n) : n \in 1..MaxRows} \cup UNION {WideTables(n) : n \in 1..MaxRowsWide}
    \cup {ExampleZ, ExampleIQR}

VARIABLES df, original_df, call, before, raised, outliers, outliers_count, removed, bounds,
          held, index_name

vars == <<df, original_df, call, before, raised, outliers, outliers_count, removed, bounds,
          held, index_name>>

\* ------------------------------------------------------------ sequences
ColumnsOf(t) == {t.columns[i] : i \in 1..Len(t.columns)}

\* self.df[column] as a sequence of cell values.
Col(t, c) == [i \in 1..Len(t.rows) |-> t.rows[i][c]]

RECURSIVE KeepIdx(_, _, _)
KeepIdx(rows, keep, i) ==
  IF i > Len(rows) THEN <<>>
  ELSE (IF i \in keep THEN <<rows[i]>> ELSE <<>>) \o KeepIdx(rows, keep, i + 1)

\* self.df[mask]: the rows whose position is in keep, in order.
BoolMask(t, keep) == Table(t.columns, KeepIdx(t.rows, keep, 1))

dropna(s) == SelectSeq(s, LAMBDA v : v # NaN)

RECURSIVE Sum(_)
Sum(s) == IF s = <<>> THEN 0 ELSE Head(s) + Sum(Tail(s))

RECURSIVE SumSq(_)
SumSq(s) == IF s = <<>> THEN 0 ELSE Head(s) * Head(s) + SumSq(Tail(s))

\* --------------------------------------------------------------- Z-score
\* scipy.stats.zscore(s), ddof = 0, nan_policy = "propagate": z = (x - mean) / std.
\* ZDev is n * (x - mean) and ZVar is n^2 * std^2, so z^2 = ZDev^2 / ZVar.
ZDev(x, s) == Len(s) * x - Sum(s)
ZVar(s) == Len(s) * SumSq(s) - Sum(s) * Sum(s)

\* Every z of the series is NaN when the series holds a NaN (the mean is NaN) or
\* has no spread (0 / 0).
zscore_isnan(s) == (\E i \in 1..Len(s) : s[i] = NaN) \/ ZVar(s) = 0

\* abs(z) < z_thresh and abs(z) > z_thresh for the z of value x in series s; both
\* are false for a NaN z.
abs_z_lt(x, s, t) == ~zscore_isnan(s) /\ ZDev(x, s) * ZDev(x, s) < t * t * ZVar(s)
\* abs(z) > z_thresh with the threshold left unsquared against z^2.
abs_z_gt_unsquared(x, s, t) == ~zscore_isnan(s) /\ ZDev(x, s) * ZDev(x, s) > t * ZVar(s)

abs_z_gt(x, s, t) == ~zscore_isnan(s) /\ ZDev(x, s) * ZDev(x, s) > t * t * ZVar(s)

\* check_outliers: is_outlier = z_scores.abs() > z_thresh, per column.
is_outlier(t, c, th) == {i \in 1..Len(t.rows) : abs_z_gt(t.rows[i][c], Col(t, c), th)}

\* check_outliers, return_rows=False: is_outlier.sum(), the count per column.
check_outliers_count(t, th) == [c \in ColumnsOf(t) |-> Cardinality(is_outlier(t, c, th))]

\* check_outliers, return_rows=True: self.df[is_outlier.any(axis=1)].
check_outliers_rows(t, th) ==
  BoolMask(t, {i \in 1..Len(t.rows) : \E c \in ColumnsOf(t) : i \in is_outlier(t, c, th)})

\* remove_outliers_zscore: mask = (z_scores.abs() < z_thresh).all(axis=1).
zscore_mask(t, th) ==
  {i \in 1..Len(t.rows) : \A c \in ColumnsOf(t) : abs_z_lt(t.rows[i][c], Col(t, c), th)}

remove_outliers_zscore_df(t, th) == BoolMask(t, zscore_mask(t, th))

RECURSIVE LabelsAt(_, _, _)
LabelsAt(rows, keep, i) ==
  IF i > Len(rows) THEN <<>>
  ELSE (IF i \in keep THEN <<rows[i].id>> ELSE <<>>) \o LabelsAt(rows, keep, i + 1)

\* self.df[column].dropna().index[mask], mask = abs(zscore(dropna)) < z_thresh:
\* the index labels of the rows with a value whose z, taken over the non-missing
\* values, is below the threshold.
column_kept_labels(t, column, th) ==
  LabelsAt(t.rows,
           {i \in 1..Len(t.rows) :
              /\ t.rows[i][column] # NaN
              /\ abs_z_lt(t.rows[i][column], dropna(Col(t, column)), th)},
           1)

RECURSIVE LocRows(_, _)
\* self.df.loc[labels]: for each label in turn, the rows carrying it.
LocRows(rows, labels) ==
  IF labels = <<>> THEN <<>>
  ELSE SelectSeq(rows, LAMBDA r : r.id = Head(labels)) \o LocRows(rows, Tail(labels))

loc(t, labels) == Table(t.columns, LocRows(t.rows, labels))

remove_outliers_from_column_df(t, column, th) == loc(t, column_kept_labels(t, column, th))

\* ------------------------------------------------------------------- IQR
\* 4 * Series.quantile(k / 4) of a non-empty series without NaN: linear
\* interpolation between the ranks around position (k / 4) * (n - 1).
\* The quantile without interpolation: the value at the lower rank.
quantile4_lower(s, k) ==
  LET sorted == SortSeq(s, LAMBDA x, y : x < y)
  IN  4 * sorted[((k * (Len(s) - 1)) \div 4) + 1]

quantile4(s, k) ==
  LET sorted == SortSeq(s, LAMBDA x, y : x < y)
      p == k * (Len(s) - 1)
      i == (p \div 4) + 1
      r == p % 4
  IN  IF r = 0 THEN 4 * sorted[i] ELSE 4 * sorted[i] + r * (sorted[i + 1] - sorted[i])

\* lower_bound = q1 - iqr_multiplier * iqr and upper_bound = q3 + iqr_multiplier * iqr,
\* from 4*q1, 4*q3, 4*iqr and m = <<num, den>>: the results are 4 * den * bound.
\* The lower bound with the sign of the spread flipped.
lower_bound_plus(q1, iqr, m) == q1 * m[2] + m[1] * iqr

lower_bound(q1, iqr, m) == q1 * m[2] - m[1] * iqr
upper_bound(q3, iqr, m) == q3 * m[2] + m[1] * iqr

\* The locals q1, q3, iqr, lower_bound, upper_bound of remove_outliers_iqr.  quantile
\* skips NaN; of a series with no value it is NaN, and so is everything after it.
NanBounds == [nan |-> TRUE, q1 |-> 0, q3 |-> 0, iqr |-> 0, lower |-> 0, upper |-> 0, scale |-> 1]
iqr_bounds(t, column, m) ==
  LET s == dropna(Col(t, column)) IN
  IF s = <<>> THEN NanBounds
  ELSE LET q1 == quantile4(s, 1)
           q3 == quantile4(s, 3)
           iqr == q3 - q1
       IN  [nan |-> FALSE, q1 |-> q1, q3 |-> q3, iqr |-> iqr,
            lower |-> lower_bound(q1, iqr, m), upper |-> upper_bound(q3, iqr, m),
            scale |-> 4 * m[2]]

\* (self.df[column] < lower_bound) | (self.df[column] > upper_bound)
iqr_outlier_mask(t, column, b) ==
  {i \in 1..Len(t.rows) :
     /\ t.rows[i][column] # NaN
     /\ ~b.nan
     /\ \/ t.rows[i][column] * b.scale < b.lower
        \/ t.rows[i][column] * b.scale > b.upper}

\* (self.df[column] >= lower_bound) & (self.df[column] <= upper_bound)
iqr_keep_mask(t, column, b) ==
  {i \in 1..Len(t.rows) :
     /\ t.rows[i][column] # NaN
     /\ ~b.nan
     /\ t.rows[i][column] * b.scale >= b.lower
     /\ t.rows[i][column] * b.scale <= b.upper}

\* remove_outliers_iqr(column, iqr_multiplier): what the call leaves behind.  An
\* absent column is reported by a print and the call returns self; otherwise the
\* rows outside the bounds are collected in outliers, the rows inside them are
\* kept, and removed = before_rows - after_rows.
remove_outliers_iqr_unguarded(t, column, m) ==
  IF column \notin ColumnsOf(t)
  THEN [df |-> t, raised |-> "KeyError", outliers |-> Table(t.columns, <<>>), removed |-> 0,
        bounds |-> NanBounds]
  ELSE LET b == iqr_bounds(t, column, m)
           kept == BoolMask(t, iqr_keep_mask(t, column, b))
       IN  [df |-> kept, raised |-> "none",
            outliers |-> BoolMask(t, iqr_outlier_mask(t, column, b)),
            removed |-> Len(t.rows) - Len(kept.rows), bounds |-> b]

remove_outliers_iqr_result(t, column, m) ==
  IF column \notin ColumnsOf(t)
  THEN [df |-> t, raised |-> "none", outliers |-> Table(t.columns, <<>>), removed |-> 0,
        bounds |-> NanBounds]
  ELSE LET b == iqr_bounds(t, column, m)
           kept == BoolMask(t, iqr_keep_mask(t, column, b))
       IN  [df |-> kept, raised |-> "none",
            outliers |-> BoolMask(t, iqr_outlier_mask(t, column, b)),
            removed |-> Len(t.rows) - Len(kept.rows), bounds |-> b]

\* ------------------------------------------------- duplicates, missing values
\* Two rows are duplicates when they agree on every column (NaN equal to NaN); the
\* index label takes no part.
SameValues(t, r1, r2) == \A c \in ColumnsOf(t) : r1[c] = r2[c]

\* Marks a row only when the row just above it holds the same values.
duplicated_adjacent(t) ==
  {i \in 1..Len(t.rows) : i > 1 /\ SameValues(t, t.rows[i - 1], t.rows[i])}

\* self.df.duplicated(): marks every occurrence of a row but the first.
duplicated(t) ==
  {i \in 1..Len(t.rows) : \E j \in 1..(i - 1) : SameValues(t, t.rows[j], t.rows[i])}

\* drop_duplicates(keep="last"): keeps every occurrence that has no later one.
duplicated_last(t) ==
  {i \in 1..Len(t.rows) : \E j \in (i + 1)..Len(t.rows) : SameValues(t, t.rows[j], t.rows[i])}

\* inspect_duplicates(): len(self.df[self.df.duplicated(keep=False)]), the number of
\* rows that have another row with the same values.
inspect_duplicates(t) ==
  Cardinality({i \in 1..Len(t.rows) :
                 \E j \in (1..Len(t.rows)) \ {i} : SameValues(t, t.rows[j], t.rows[i])})

DuplicateMethods == {"keep_first", "keep_last", "drop_all"}
\* The methods handle_duplicates names, and the method arguments tried: "keep_none"
\* is none of them.
KnownMethods == DuplicateMethods \cup {"flag"}
MethodArgs == KnownMethods \cup {"keep_none"}

\* self.df["is_duplicate"] = duplicates: the column is added as the last one, or
\* overwritten where it stands. True and False are written 1 and 0.
with_is_duplicate(t) ==
  Table(IF "is_duplicate" \in ColumnsOf(t) THEN t.columns ELSE Append(t.columns, "is_duplicate"),
        [i \in 1..Len(t.rows) |->
           [f \in DOMAIN t.rows[i] \cup {"is_duplicate"} |->
              IF f = "is_duplicate" THEN (IF i \in duplicated(t) THEN 1 ELSE 0)
              ELSE t.rows[i][f]]])

\* The exception handle_duplicates(method) ends with: the method is looked at only
\* once duplicates were found.
handle_duplicates_raised(t, method) ==
  IF Cardinality(duplicated(t)) # 0 /\ method \notin KnownMethods THEN "ValueError" ELSE "none"

RECURSIVE Reverse(_)
Reverse(s) == IF s = <<>> THEN <<>> ELSE Reverse(Tail(s)) \o <<Head(s)>>

\* keep="last" done by reversing the table and keeping first occurrences, the
\* result left reversed.
handle_duplicates_reversed(t, method) ==
  IF Cardinality(duplicated(t)) = 0 THEN t
  ELSE CASE method = "keep_first" -> BoolMask(t, (1..Len(t.rows)) \ duplicated(t))
         [] method = "keep_last" ->
              Table(t.columns, Reverse(BoolMask(t, (1..Len(t.rows)) \ duplicated_last(t)).rows))
         [] method = "drop_all" -> BoolMask(t, (1..Len(t.rows)) \ duplicated(t))

handle_duplicates_df(t, method) ==
  IF Cardinality(duplicated(t)) = 0 THEN t
  ELSE CASE method = "keep_first" -> BoolMask(t, (1..Len(t.rows)) \ duplicated(t))
         [] method = "keep_last" -> BoolMask(t, (1..Len(t.rows)) \ duplicated_last(t))
         [] method = "drop_all" -> BoolMask(t, (1..Len(t.rows)) \ duplicated(t))
         [] method = "flag" -> with_is_duplicate(t)
         [] OTHER -> t

\* self.df.isnull(): the positions of the rows with a missing cell.
isnull_any(t) == {i \in 1..Len(t.rows) : \E c \in ColumnsOf(t) : t.rows[i][c] = NaN}

\* handle_missing_values("drop"): self.df.dropna(inplace=True).
handle_missing_values_drop_df(t) ==
  IF isnull_any(t) = {} THEN t ELSE BoolMask(t, (1..Len(t.rows)) \ isnull_any(t))

\* The strategies handle_missing_values names, and the strategy arguments tried:
\* "mode" is none of them. "mean" and "median" fill with a value that need not be
\* an integer and are not called.
KnownStrategies == {"mean", "median", "most_frequent", "drop"}
StrategyArgs == {"most_frequent", "drop", "mode"}

\* The exception handle_missing_values(strategy) ends with: the strategy is looked
\* at only once a missing value was found.
handle_missing_values_raised(t, strategy) ==
  IF isnull_any(t) # {} /\ strategy \notin KnownStrategies THEN "ValueError" ELSE "none"

\* handle_missing_values(strategy): "most_frequent" fills the object columns only,
\* and every column here is numeric.
handle_missing_values_df(t, strategy) ==
  IF strategy = "drop" THEN handle_missing_values_drop_df(t) ELSE t

\* self.df.set_index(column, inplace=True): the column leaves df.columns, its values
\* become the index labels and the labels held so far are dropped.
RECURSIVE Without(_, _)
Without(s, x) ==
  IF s = <<>> THEN <<>>
  ELSE IF Head(s) = x THEN Without(Tail(s), x) ELSE <<Head(s)>> \o Without(Tail(s), x)

set_index(t, column) ==
  Table(Without(t.columns, column),
        [i \in 1..Len(t.rows) |->
           [f \in DOMAIN t.rows[i] \ {column} |->
              IF f = "id" THEN t.rows[i][column] ELSE t.rows[i][f]]])

\* ---------------------------------------------------------------- the object
\* What the DataFrame object that self.df named when a call began holds once the
\* call is over (variable held). An assignment self.df = ... gives the processor a
\* new object and leaves the old one as it was.
rebind_overwrites(old, new) == new

Rebind(old, new) == old

\* An inplace=True call changes the object itself.
InPlace(old, new) == new

Call(op, column, param, method) == [op |-> op, column |-> column, param |-> param, method |-> method]

\* df.index.name of a frame read by pd.read_csv: None.
NoName == ""

NoRows(t) == Table(t.columns, <<>>)
NoCount(t) == [c \in ColumnsOf(t) |-> 0]

\* DataProcessor(filepath).load(), then original_df = processor.df.copy().
Init ==
  /\ df \in LoadedTables
  /\ original_df = df
  /\ call = Call("load", "", NoParam, "")
  /\ before = df
  /\ raised = "none"
  /\ outliers = NoRows(df)
  /\ outliers_count = NoCount(df)
  /\ removed = 0
  /\ bounds = NanBounds
  /\ held = df
  /\ index_name = NoName

\* check_outliers(z_thresh): reads self.df only; both of its results are recorded.
CheckOutliers(th) ==
  /\ call' = Call("check_outliers", "", <<th, 1>>, "")
  /\ before' = df
  /\ outliers_count' = check_outliers_count(df, th)
  /\ outliers' = check_outliers_rows(df, th)
  /\ raised' = "none"
  /\ removed' = 0
  /\ bounds' = NanBounds
  /\ held' = df
  /\ UNCHANGED <<df, original_df, index_name>>

\* remove_outliers_zscore(z_thresh): self.df = self.df[mask].
RemoveOutliersZscore(th) ==
  /\ call' = Call("remove_outliers_zscore", "", <<th, 1>>, "")
  /\ before' = df
  /\ df' = remove_outliers_zscore_df(df, th)
  /\ raised' = "none"
  /\ outliers' = NoRows(df)
  /\ outliers_count' = NoCount(df)
  /\ removed' = 0
  /\ bounds' = NanBounds
  /\ held' = Rebind(df, df')
  /\ UNCHANGED <<original_df, index_name>>

\* remove_outliers_from_column(column, z_thresh): self.df[column] raises KeyError
\* for an absent column, before anything is assigned.
RemoveOutliersFromColumn(column, th) ==
  /\ call' = Call("remove_outliers_from_column", column, <<th, 1>>, "")
  /\ before' = df
  /\ IF column \notin ColumnsOf(df)
     THEN /\ raised' = "KeyError"
          /\ removed' = 0
          /\ UNCHANGED df
     ELSE LET filtered_df == remove_outliers_from_column_df(df, column, th) IN
          /\ raised' = "none"
          /\ removed' = Len(df.rows) - Len(filtered_df.rows)
          /\ df' = filtered_df
  /\ outliers' = NoRows(df)
  /\ outliers_count' = NoCount(df)
  /\ bounds' = NanBounds
  /\ held' = IF column \in ColumnsOf(df) THEN Rebind(df, df') ELSE df
  /\ UNCHANGED <<original_df, index_name>>

\* remove_outliers_iqr(column, iqr_multiplier).
RemoveOutliersIqr(column, m) ==
  LET res == remove_outliers_iqr_result(df, column, m) IN
  /\ call' = Call("remove_outliers_iqr", column, m, "")
  /\ before' = df
  /\ raised' = res.raised
  /\ bounds' = res.bounds
  /\ outliers' = res.outliers
  /\ removed' = res.removed
  /\ df' = res.df
  /\ outliers_count' = NoCount(df)
  /\ held' = IF column \in ColumnsOf(df) THEN Rebind(df, df') ELSE df
  /\ UNCHANGED <<original_df, index_name>>

\* handle_duplicates(method).
HandleDuplicates(method) ==
  /\ call' = Call("handle_duplicates", "", NoParam, method)
  /\ before' = df
  /\ df' = handle_duplicates_df(df, method)
  /\ raised' = handle_duplicates_raised(df, method)
  /\ outliers' = NoRows(df)
  /\ outliers_count' = NoCount(df)
  /\ removed' = 0
  /\ bounds' = NanBounds
  /\ held' = IF Cardinality(duplicated(df)) = 0 THEN df
            ELSE IF method = "drop_all" THEN Rebind(df, df') ELSE InPlace(df, df')
  /\ UNCHANGED <<original_df, index_name>>

\* handle_missing_values(strategy).
HandleMissingValues(strategy) ==
  /\ call' = Call("handle_missing_values", "", NoParam, strategy)
  /\ before' = df
  /\ df' = handle_missing_values_df(df, strategy)
  /\ raised' = handle_missing_values_raised(df, strategy)
  /\ outliers' = NoRows(df)
  /\ outliers_count' = NoCount(df)
  /\ removed' = 0
  /\ bounds' = NanBounds
  /\ held' = IF isnull_any(df) = {} THEN df ELSE InPlace(df, df')
  /\ UNCHANGED <<original_df, index_name>>

\* handle_missing_values("drop").
HandleMissingValuesDrop == HandleMissingValues("drop")

\* set_index_column(column_name): the column is looked up in df.columns first, then
\* compared with the name of the index.
SetIndexColumn(column) ==
  /\ call' = Call("set_index_column", column, NoParam, "")
  /\ before' = df
  /\ IF column \notin ColumnsOf(df)
     THEN /\ raised' = "ValueError"
          /\ UNCHANGED <<df, index_name>>
     ELSE IF index_name = column
     THEN /\ raised' = "none"
          /\ UNCHANGED <<df, index_name>>
     ELSE /\ raised' = "none"
          /\ df' = set_index(df, column)
          /\ index_name' = column
  /\ held' = InPlace(df, df')
  /\ outliers' = NoRows(df)
  /\ outliers_count' = NoCount(df)
  /\ removed' = 0
  /\ bounds' = NanBounds
  /\ UNCHANGED original_df

Next ==
  \/ \E th \in ZThresholds : CheckOutliers(th)
  \/ \E th \in ZThresholds : RemoveOutliersZscore(th)
  \/ \E column \in ColumnArgs, th \in ZThresholds : RemoveOutliersFromColumn(column, th)
  \/ \E column \in ColumnArgs, m \in IqrMultipliers : RemoveOutliersIqr(column, m)
  \/ \E method \in DuplicateMethods : HandleDuplicates(method)
  \/ HandleMissingValuesDrop

Spec == Init /\ [][Next]_vars

\* The calls that take an option by name, every option tried.
NextOptions ==
  \/ \E method \in MethodArgs : HandleDuplicates(method)
  \/ \E strategy \in StrategyArgs : HandleMissingValues(strategy)

SpecOptions == Init /\ [][NextOptions]_vars

\* Setting the index, any number of times.
NextIndex == \E column \in ColumnArgs : SetIndexColumn(column)

SpecIndex == Init /\ [][NextIndex]_vars

\* ------------------------------------------------------------ properties
RowIn(r, t) == \E i \in 1..Len(t.rows) : t.rows[i] = r

RECURSIVE IsSubsequence(_, _)
\* s can be obtained from t by deleting elements.
IsSubsequence(s, t) ==
  IF s = <<>> THEN TRUE
  ELSE IF t = <<>> THEN FALSE
  ELSE IF Head(s) = Head(t) THEN IsSubsequence(Tail(s), Tail(t))
  ELSE IsSubsequence(s, Tail(t))

HasNoMissing(t, c) == \A i \in 1..Len(t.rows) : t.rows[i][c] # NaN

\* |z| <= th for value x of a series s without missing values and with spread.
WithinThreshold(x, s, th) == ZVar(s) > 0 /\ ZDev(x, s) * ZDev(x, s) <= th * th * ZVar(s)

WithoutMissing(t, c) == BoolMask(t, {i \in 1..Len(t.rows) : t.rows[i][c] # NaN})

AfterColumnCall(op) ==
  call.op = op /\ call.column \in ColumnsOf(before) /\ raised = "none"

\* C1: Z-score removal never increases the row count and keeps every row whose
\* value is within threshold (|z| <= t, z from the mean and the population standard
\* deviation): after remove_outliers_from_column(column, t) every row with |z| <= t
\* in that column, and after remove_outliers_zscore(t) every row with |z| <= t in
\* every column, is still in the dataset.  Stated for columns without missing
\* values and with a non-zero spread, where z is defined.
C1_ZscoreRemovalKeepsWithinThreshold ==
  /\ AfterColumnCall("remove_outliers_from_column") =>
       /\ Len(df.rows) <= Len(before.rows)
       /\ HasNoMissing(before, call.column) =>
            \A i \in 1..Len(before.rows) :
               WithinThreshold(before.rows[i][call.column], Col(before, call.column),
                               call.param[1])
                 => RowIn(before.rows[i], df)
  /\ call.op = "remove_outliers_zscore" =>
       /\ Len(df.rows) <= Len(before.rows)
       /\ (\A c \in ColumnsOf(before) : HasNoMissing(before, c)) =>
            \A i \in 1..Len(before.rows) :
               (\A c \in ColumnsOf(before) :
                   WithinThreshold(before.rows[i][c], Col(before, c), call.param[1]))
                 => RowIn(before.rows[i], df)

\* A column with at least one row, no missing value and all values equal.
IsConstant(t, c) ==
  /\ Len(t.rows) > 0
  /\ \A i \in 1..Len(t.rows) : t.rows[i][c] # NaN /\ t.rows[i][c] = t.rows[1][c]

\* C2: for a constant column (standard deviation zero) z counts as 0: check_outliers
\* flags no row for that column, remove_outliers_from_column on it removes no row,
\* and remove_outliers_zscore removes no row because of it (a row whose other
\* columns are all below the threshold stays).
C2_ConstantColumnRemovesNothing ==
  /\ call.op = "check_outliers" =>
       \A c \in ColumnsOf(before) : IsConstant(before, c) => outliers_count[c] = 0
  /\ (AfterColumnCall("remove_outliers_from_column") /\ IsConstant(before, call.column)) =>
       df = before
  /\ call.op = "remove_outliers_zscore" =>
       \A i \in 1..Len(before.rows) :
          (\A c \in ColumnsOf(before) :
              \/ IsConstant(before, c)
              \/ abs_z_lt(before.rows[i][c], Col(before, c), call.param[1]))
            => RowIn(before.rows[i], df)

\* C3: a row whose value in the examined column is missing is never flagged for
\* that column: it is still in the dataset after remove_outliers_from_column and
\* remove_outliers_iqr on that column, and after remove_outliers_zscore when each
\* of its values that is present is below the threshold among the values present
\* in its column; and the rows with a value are kept or removed exactly as they
\* would be if the rows with a missing value were not in the table.
C3_MissingRowsKeptAndIgnored ==
  /\ AfterColumnCall("remove_outliers_from_column") =>
       /\ \A i \in 1..Len(before.rows) :
             before.rows[i][call.column] = NaN => RowIn(before.rows[i], df)
       /\ WithoutMissing(df, call.column)
            = remove_outliers_from_column_df(WithoutMissing(before, call.column),
                                             call.column, call.param[1])
  /\ AfterColumnCall("remove_outliers_iqr") =>
       /\ \A i \in 1..Len(before.rows) :
             before.rows[i][call.column] = NaN => RowIn(before.rows[i], df)
       /\ WithoutMissing(df, call.column)
            = remove_outliers_iqr_result(WithoutMissing(before, call.column),
                                         call.column, call.param).df
  /\ call.op = "remove_outliers_zscore" =>
       \A i \in 1..Len(before.rows) :
          (\A c \in ColumnsOf(before) :
              \/ before.rows[i][c] = NaN
              \/ abs_z_lt(before.rows[i][c], dropna(Col(before, c)), call.param[1]))
            => RowIn(before.rows[i], df)

\* The row at position i of the table before the call lies outside the bounds the
\* call computed: value < lower_bound or value > upper_bound.
OutsideBounds(i) ==
  /\ before.rows[i][call.column] # NaN
  /\ ~bounds.nan
  /\ \/ before.rows[i][call.column] * bounds.scale < bounds.lower
     \/ before.rows[i][call.column] * bounds.scale > bounds.upper

\* C4: remove_outliers_iqr on an existing column flags exactly the rows whose value
\* is < lower_bound or > upper_bound, the dataset afterwards holds exactly the
\* unflagged rows, and the count removed equals the number of flagged rows.
C4_IqrRemovesExactlyFlagged ==
  AfterColumnCall("remove_outliers_iqr") =>
    /\ outliers = BoolMask(before, {i \in 1..Len(before.rows) : OutsideBounds(i)})
    /\ df = BoolMask(before, {i \in 1..Len(before.rows) : ~OutsideBounds(i)})
    /\ removed = Len(outliers.rows)

\* C5: after any sequence of filtering calls the dataset is an order-preserving
\* subsequence of the loaded rows (no row added, none duplicated, none changed),
\* and of the dataset before the last call, so the row count never increases.
C5_FilteringKeepsSubsequence ==
  /\ df.columns = original_df.columns
  /\ IsSubsequence(df.rows, original_df.rows)
  /\ IsSubsequence(df.rows, before.rows)
  /\ Len(df.rows) <= Len(before.rows)
  /\ \A i, j \in 1..Len(df.rows) : i # j => df.rows[i].id # df.rows[j].id

\* A second filtering call has removed rows again, from the middle or the front,
\* and rows remain.
C5_Witness ==
  /\ call.op = "handle_duplicates"
  /\ call.method = "keep_last"
  /\ Len(before.rows) < Len(original_df.rows)
  /\ Len(df.rows) < Len(before.rows)
  /\ Len(df.rows) >= 2
  /\ df.rows[Len(df.rows)] = before.rows[Len(before.rows)]

\* C6: remove_outliers_iqr on a column whose interquartile range is zero (Q1 = Q3)
\* is not an error and flags no row: the dataset is left unchanged and no outlier
\* is reported, for every multiplier.  Stated for columns without missing values.
C6_ZeroIqrFlagsNothing ==
  ( /\ AfterColumnCall("remove_outliers_iqr")
    /\ HasNoMissing(before, call.column)
    /\ ~bounds.nan
    /\ bounds.iqr = 0 )
  => /\ df = before
     /\ outliers.rows = <<>>
     /\ removed = 0

AbsentColumnCall ==
  /\ call.op \in {"remove_outliers_iqr", "remove_outliers_from_column"}
  /\ call.column \notin ColumnsOf(before)

ExampleZCall == before = ExampleZ /\ call.param = <<2, 1>>

\* C8 as stated: for the column [10, 12, 11, 13, 1000] and threshold 2, detection
\* flags the row with value 1000 and no other, and Z-score removal leaves exactly
\* the rows 10, 12, 11, 13.
C8_ExampleZFlags1000 ==
  ExampleZCall =>
    /\ call.op = "check_outliers" =>
         (outliers.rows = <<ExampleZ.rows[5]>> /\ outliers_count["a"] = 1)
    /\ (call.op = "remove_outliers_zscore" \/ AfterColumnCall("remove_outliers_from_column")) =>
         df.rows = SubSeq(ExampleZ.rows, 1, 4)

\* C8, amended: for the column [10, 12, 11, 13, 1000] and threshold 2 the z of 1000
\* is just under 2 (3954 / sqrt(3908554)), so detection flags no row and Z-score
\* removal leaves all five rows.
C8_ExampleZFlagsNothing ==
  ExampleZCall =>
    /\ call.op = "check_outliers" => (outliers.rows = <<>> /\ outliers_count["a"] = 0)
    /\ (call.op = "remove_outliers_zscore" \/ AfterColumnCall("remove_outliers_from_column")) =>
         df = ExampleZ

\* Z-score removal with threshold 2 has run on the example column.
C8_Witness ==
  /\ ExampleZCall
  /\ AfterColumnCall("remove_outliers_from_column")
  /\ removed = 0
  /\ Len(df.rows) = 5

ExampleIQRCall ==
  /\ before = ExampleIQR
  /\ call.op = "remove_outliers_iqr"
  /\ call.column = "a"
  /\ call.param = <<3, 2>>

\* C9: for the column [1, 2, 3, 4, 5, 100] and multiplier 1.5, remove_outliers_iqr
\* computes Q1 = 2.25, Q3 = 4.75, IQR = 2.5 (here times 4) and the bounds -1.5 and
\* 8.5 (here times 8), and flags and removes the row with value 100 and no other.
C9_ExampleIqr ==
  ExampleIQRCall =>
    /\ ~bounds.nan
    /\ bounds.q1 = 9 /\ bounds.q3 = 19 /\ bounds.iqr = 10
    /\ bounds.scale = 8 /\ bounds.lower = -12 /\ bounds.upper = 68
    /\ outliers.rows = <<ExampleIQR.rows[6]>>
    /\ df.rows = SubSeq(ExampleIQR.rows, 1, 5)
    /\ removed = 1

C9_Witness == ExampleIQRCall /\ Len(df.rows) = 5 /\ raised = "none"

\* remove_outliers_iqr ran on a column with at least one value, multiplier >= 0.
IqrCallWithValues ==
  /\ AfterColumnCall("remove_outliers_iqr")
  /\ dropna(Col(before, call.column)) # <<>>
  /\ call.param[1] >= 0

\* C10: for a column with at least one non-missing value and a multiplier >= 0 the
\* bounds satisfy lower_bound <= Q1 <= Q3 <= upper_bound, and no row whose value
\* lies in [Q1, Q3] is flagged or removed.
C10_IqrBoundsEncloseQuartiles ==
  IqrCallWithValues =>
    /\ ~bounds.nan
    /\ bounds.lower <= bounds.q1 * call.param[2]
    /\ bounds.q1 <= bounds.q3
    /\ bounds.q3 * call.param[2] <= bounds.upper
    /\ \A i \in 1..Len(before.rows) :
          ( /\ before.rows[i][call.column] # NaN
            /\ bounds.q1 <= 4 * before.rows[i][call.column]
            /\ 4 * before.rows[i][call.column] <= bounds.q3 )
          => (RowIn(before.rows[i], df) /\ ~RowIn(before.rows[i], outliers))

\* The quartiles differ, the multiplier is positive, a row inside [Q1, Q3] stays
\* and a row outside the bounds goes.
C10_Witness ==
  /\ IqrCallWithValues
  /\ call.param[1] > 0
  /\ bounds.iqr > 0
  /\ outliers.rows # <<>>
  /\ \E i \in 1..Len(before.rows) :
        /\ before.rows[i][call.column] # NaN
        /\ bounds.q1 <= 4 * before.rows[i][call.column]
        /\ 4 * before.rows[i][call.column] <= bounds.q3
        /\ RowIn(before.rows[i], df)

\* C11: whenever detection flags no row, removal returns a dataset identical to its
\* input: remove_outliers_zscore when check_outliers reports no row for the same
\* threshold, remove_outliers_from_column when check_outliers flags no row in that
\* column, remove_outliers_iqr when no row lies outside the bounds.
C11_NoOutlierRoundTrip ==
  /\ (call.op = "remove_outliers_zscore"
        /\ check_outliers_rows(before, call.param[1]).rows = <<>>) => df = before
  /\ (AfterColumnCall("remove_outliers_from_column")
        /\ is_outlier(before, call.column, call.param[1]) = {}) => df = before
  /\ (AfterColumnCall("remove_outliers_iqr") /\ outliers.rows = <<>>) => df = before

\* C13: the rows remove_outliers_zscore(t) removes are exactly the rows
\* check_outliers(z_thresh=t, return_rows=True) reports on the same dataset: the
\* rows flagged |z| > t in at least one column.
C13_RemovalMatchesDetection ==
  call.op = "remove_outliers_zscore" =>
    df = BoolMask(before,
                  {i \in 1..Len(before.rows) :
                     ~RowIn(before.rows[i], check_outliers_rows(before, call.param[1]))})

\* C14: after handle_duplicates with method keep_first, keep_last or drop_all,
\* inspect_duplicates reports 0 duplicate rows and a second handle_duplicates with
\* any of these methods leaves the dataset unchanged.
C14_HandleDuplicatesIdempotent ==
  (call.op = "handle_duplicates" /\ call.method \in DuplicateMethods) =>
    /\ inspect_duplicates(df) = 0
    /\ \A method \in DuplicateMethods : handle_duplicates_df(df, method) = df

C14_Witness ==
  /\ call.op = "handle_duplicates"
  /\ call.method = "drop_all"
  /\ inspect_duplicates(before) >= 3
  /\ Len(df.rows) >= 2
  /\ Len(df.rows) < Len(before.rows)

OutlierCalls ==
  {"check_outliers", "remove_outliers_zscore", "remove_outliers_from_column",
   "remove_outliers_iqr"}

\* C12: outlier detection and removal leave the dataset they are given as it was:
\* check_outliers leaves self.df unchanged, a removal only gives the processor a new
\* dataset, so the dataset the processor held before the call and the caller's
\* snapshot original_df are the same after the call, also when the call fails.
C12_OutlierCallsKeepGivenDataset ==
  [][call'.op \in OutlierCalls =>
       /\ original_df' = original_df
       /\ held' = df
       /\ (call'.op = "check_outliers" \/ raised' # "none") => df' = df]_vars

C12_Witness ==
  /\ call.op \in {"remove_outliers_zscore", "remove_outliers_from_column"}
  /\ Len(before.rows) < Len(original_df.rows)
  /\ Len(df.rows) < Len(before.rows)
  /\ Len(df.rows) >= 1
  /\ held = before

UnknownOptionCall ==
  \/ call.op = "handle_duplicates" /\ call.method \notin KnownMethods
  \/ call.op = "handle_missing_values" /\ call.method \notin KnownStrategies

\* C16: handle_duplicates called with a method other than keep_first, keep_last,
\* drop_all or flag, and handle_missing_values called with a strategy other than
\* mean, median, most_frequent or drop, raise ValueError and leave the dataset
\* unchanged, whether or not the dataset holds duplicates or missing values.
C16_UnknownOptionRejected ==
  UnknownOptionCall => (raised = "ValueError" /\ df = before)

\* C15: once set_index_column(c) has succeeded, a second set_index_column(c)
\* recognises that c is already the index: it raises no error and leaves the
\* dataset unchanged.
C15_SetIndexRepeatable ==
  [][(index_name # NoName /\ call'.op = "set_index_column" /\ call'.column = index_name)
       => (raised' = "none" /\ df' = df)]_vars

====
